---- MODULE Spec2Model ----
(***************************************************************************)
(* Model of the learning-record store of cursor-skills-sync:               *)
(*   scripts/learningManager.py   (parse, load/save, review, promote)      *)
(*   scripts/learningUiServer.py  (dashboard aggregation)                  *)
(*                                                                         *)
(* A Python str is a string, a file is the string of its characters, and  *)
(* a list of lines is a sequence of strings.  Strings are taken apart with *)
(* Len, SubSeq, Head, Tail and \o.  List indices are kept 0-based as in    *)
(* the source; At(lines, i) reads lines[i].                                *)
(***************************************************************************)
EXTENDS Integers, Sequences, FiniteSets, TLC

\* ------------------------------------------------------------------------
\* Python values
\* ------------------------------------------------------------------------

\* Python's None, where a str is optional.  It ends in a line break, which
\* no value read from a line holds.
None == "None\n"

LowerChars ==
    {"a","b","c","d","e","f","g","h","i","j","k","l","m",
     "n","o","p","q","r","s","t","u","v","w","x","y","z"}

UpperChars ==
    {"A","B","C","D","E","F","G","H","I","J","K","L","M",
     "N","O","P","Q","R","S","T","U","V","W","X","Y","Z"}

DigitChars == {"0","1","2","3","4","5","6","7","8","9"}

\* The characters str.strip() removes (those the model's texts can hold).
Whitespace == {" ", "\t", "\n", "\r"}

\* [A-Za-z0-9_]
WordChars == LowerChars \cup UpperChars \cup DigitChars \cup {"_"}

\* lines[i] of a Python list
At(lines, i) == lines[i + 1]

\* s[i - 1] of a Python str: the i-th character, as a str of length 1
Char(s, i) == SubSeq(s, i, i)

\* s.startswith(p)
startswith(s, p) == Len(s) >= Len(p) /\ SubSeq(s, 1, Len(p)) = p

\* s.rstrip(chars) / s.lstrip(chars) / s.strip(chars)
RECURSIVE rstrip_chars(_, _)
rstrip_chars(s, chars) ==
    IF s = "" \/ Char(s, Len(s)) \notin chars THEN s
    ELSE rstrip_chars(SubSeq(s, 1, Len(s) - 1), chars)

RECURSIVE lstrip_chars(_, _)
lstrip_chars(s, chars) ==
    IF s = "" \/ Char(s, 1) \notin chars THEN s
    ELSE lstrip_chars(Tail(s), chars)

rstrip(s) == rstrip_chars(s, Whitespace)

strip(s) == lstrip_chars(rstrip_chars(s, Whitespace), Whitespace)

\* U+212A KELVIN SIGN, which TLA+ strings cannot hold, is written "^" (no
\* text of the model holds a circumflex): str.lower() turns it into "k", and
\* it is neither an ASCII letter nor white space.
KelvinSign == "^"

\* c.lower() for one character
lower_char(c) ==
    CASE c = "A" -> "a" [] c = "B" -> "b" [] c = "C" -> "c" [] c = "D" -> "d"
      [] c = "E" -> "e" [] c = "F" -> "f" [] c = "G" -> "g" [] c = "H" -> "h"
      [] c = "I" -> "i" [] c = "J" -> "j" [] c = "K" -> "k" [] c = "L" -> "l"
      [] c = "M" -> "m" [] c = "N" -> "n" [] c = "O" -> "o" [] c = "P" -> "p"
      [] c = "Q" -> "q" [] c = "R" -> "r" [] c = "S" -> "s" [] c = "T" -> "t"
      [] c = "U" -> "u" [] c = "V" -> "v" [] c = "W" -> "w" [] c = "X" -> "x"
      [] c = "Y" -> "y" [] c = "Z" -> "z" [] c = KelvinSign -> "k"
      [] OTHER -> c

\* s.lower()
RECURSIVE lower(_)
lower(s) == IF s = "" THEN "" ELSE lower_char(Head(s)) \o lower(Tail(s))

\* sep.join(lines)
RECURSIVE join(_, _)
join(sep, lines) ==
    IF lines = <<>> THEN ""
    ELSE IF Len(lines) = 1 THEN lines[1]
    ELSE lines[1] \o sep \o join(sep, Tail(lines))

\* The index (1-based) of the first character of s at or after i that is in
\* chars, or 0 when there is none.
find_char(s, i, chars) ==
    LET hits == {k \in i..Len(s) : Char(s, k) \in chars}
    IN  IF hits = {} THEN 0
        ELSE CHOOSE k \in hits : \A other \in hits : k <= other

\* The text-mode read of Path.read_text (newline=None): "\r\n" and a lone
\* "\r" are translated to "\n".  The text is taken one "\r" at a time, cr
\* being the index of the first one (0 when there is none).
RECURSIVE read_text(_)
read_text_at(raw, cr) ==
    IF cr = 0 THEN raw
    ELSE IF cr < Len(raw) /\ Char(raw, cr + 1) = "\n"
         THEN SubSeq(raw, 1, cr - 1) \o "\n"
              \o read_text(SubSeq(raw, cr + 2, Len(raw)))
    ELSE SubSeq(raw, 1, cr - 1) \o "\n"
         \o read_text(SubSeq(raw, cr + 1, Len(raw)))

read_text(raw) == read_text_at(raw, find_char(raw, 1, {"\r"}))

\* str.splitlines(): the text is taken one line at a time, brk being the
\* index of the first line boundary (0 when there is none).  A boundary
\* ("\n", "\r" or "\r\n") ends a line; no empty last line is produced.
RECURSIVE splitlines(_)
splitlines_at(s, brk) ==
    IF s = "" THEN <<>>
    ELSE IF brk = 0 THEN <<s>>
    ELSE IF Char(s, brk) = "\r" /\ brk < Len(s) /\ Char(s, brk + 1) = "\n"
         THEN <<SubSeq(s, 1, brk - 1)>>
              \o splitlines(SubSeq(s, brk + 2, Len(s)))
    ELSE <<SubSeq(s, 1, brk - 1)>>
         \o splitlines(SubSeq(s, brk + 1, Len(s)))

splitlines(s) == splitlines_at(s, find_char(s, 1, {"\n", "\r"}))

\* ------------------------------------------------------------------------
\* learningManager.py: the record grammar
\* ------------------------------------------------------------------------

\* The index (1-based) of the last character of the longest run of characters
\* of chars that starts at i; i - 1 when Char(s, i) is not in chars.
RECURSIVE run_end(_, _, _)
run_end(s, i, chars) ==
    IF i > Len(s) \/ Char(s, i) \notin chars THEN i - 1
    ELSE run_end(s, i + 1, chars)

NoMatch == [matched |-> FALSE]

\* ENTRY_HEADER_RE.match(line), r"^- \[(?P<ts>[^\]]+)\] (?P<title>.+)$":
\* "- [", one or more characters other than "]", "] ", one or more
\* characters; close is the index of the first "]" after "- [".
header_match(line, close) ==
    IF /\ startswith(line, "- [")
       /\ close > 4
       /\ Len(line) >= close + 2
       /\ Char(line, close + 1) = " "
    THEN [matched |-> TRUE,
          ts      |-> SubSeq(line, 4, close - 1),
          title   |-> SubSeq(line, close + 2, Len(line))]
    ELSE NoMatch

ENTRY_HEADER_RE(line) == header_match(line, find_char(line, 4, {"]"}))

\* KV_RE.match(line), r"^  - (?P<key>[A-Za-z0-9_]+): (?P<value>.*)$"; last
\* is the index of the last character of the key.
kv_match(line, last) ==
    IF /\ startswith(line, "  - ")
       /\ last >= 5
       /\ Len(line) >= last + 2
       /\ Char(line, last + 1) = ":"
       /\ Char(line, last + 2) = " "
    THEN [matched |-> TRUE,
          key     |-> SubSeq(line, 5, last),
          value   |-> SubSeq(line, last + 3, Len(line))]
    ELSE NoMatch

KV_RE(line) == kv_match(line, run_end(line, 5, WordChars))

\* The five recognized keys, and the canonical status values.
key_fingerprint == "fingerprint"
key_source      == "source"
key_status      == "status"
key_details     == "details"
key_reviewNote  == "reviewNote"

st_pending  == "pending"
st_approved == "approved"
st_rejected == "rejected"
st_promoted == "promoted"

\* ------------------------------------------------------------------------
\* learningManager.py: results of calls that can raise
\* ------------------------------------------------------------------------

Ok(v) == [ok |-> TRUE, value |-> v, error |-> ""]

\* raise ValueError(...) / FileNotFoundError(...): error names the message.
Raise(e) == [ok |-> FALSE, value |-> <<>>, error |-> e]

ErrUnsupportedSource == "Unsupported source"
ErrMissingFile       == "Missing file"
ErrFingerprint       == "Fingerprint not found"
ErrStatus            == "Entry status must be 'approved' before promotion"
ErrInvalidSlug       == "Invalid slug."
ErrUnsupportedTarget == "Unsupported target"
ErrSkillExists       == "Skill already exists"

\* entries_path(repo_dir, source): the document of a selector.
entries_path(source) ==
    IF source = "manual" THEN Ok("manual")
    ELSE IF source = "generated" THEN Ok("generated")
    ELSE Raise(ErrUnsupportedSource)

\* ------------------------------------------------------------------------
\* learningManager.py: parse_entries
\* ------------------------------------------------------------------------

\* Mutant: the span runs over field lines only and ends at the first line
\* that is not one.
RECURSIVE scan_to_header_fields_only(_, _)
scan_to_header_fields_only(lines, j) ==
    IF j < Len(lines) /\ KV_RE(At(lines, j)).matched
    THEN scan_to_header_fields_only(lines, j + 1)
    ELSE j

\* while j < len(lines) and not ENTRY_HEADER_RE.match(lines[j]): j += 1
RECURSIVE scan_to_header(_, _)
scan_to_header(lines, j) ==
    IF j < Len(lines) /\ ~ENTRY_HEADER_RE(At(lines, j)).matched
    THEN scan_to_header(lines, j + 1)
    ELSE j

\* Mutant: the first line with a key wins.
set_attr_first(attrs, km) ==
    IF ~km.matched THEN attrs
    ELSE IF km.key = key_fingerprint
         THEN (IF attrs.fingerprint # None THEN attrs
               ELSE [attrs EXCEPT !.fingerprint = km.value])
    ELSE IF km.key = key_source THEN [attrs EXCEPT !.source = km.value]
    ELSE IF km.key = key_status
         THEN (IF attrs.status # None THEN attrs
               ELSE [attrs EXCEPT !.status = km.value])
    ELSE IF km.key = key_details THEN [attrs EXCEPT !.details = km.value]
    ELSE IF km.key = key_reviewNote
         THEN [attrs EXCEPT !.review_note = km.value]
    ELSE attrs

\* One turn of the loop over the field lines of a record, km being the match
\* of KV_RE: a later line with the same key overwrites the attribute.
set_attr(attrs, km) ==
    IF ~km.matched THEN attrs
    ELSE IF km.key = key_fingerprint
         THEN [attrs EXCEPT !.fingerprint = km.value]
    ELSE IF km.key = key_source THEN [attrs EXCEPT !.source = km.value]
    ELSE IF km.key = key_status THEN [attrs EXCEPT !.status = km.value]
    ELSE IF km.key = key_details THEN [attrs EXCEPT !.details = km.value]
    ELSE IF km.key = key_reviewNote
         THEN [attrs EXCEPT !.review_note = km.value]
    ELSE attrs

scan_field(attrs, line) == set_attr(attrs, KV_RE(line))

\* for k in range(i + 1, j): ...
RECURSIVE scan_fields(_, _, _, _)
scan_fields(lines, k, j, attrs) ==
    IF k >= j THEN attrs
    ELSE scan_fields(lines, k + 1, j, scan_field(attrs, At(lines, k)))

NoAttrs ==
    [fingerprint |-> None, source |-> None, status |-> None,
     details |-> None, review_note |-> None]

\* The Entry that parse_entries appends for the header at index i, whose
\* span ends at j: m is the match of the header, attrs the attributes read.
make_entry(i, j, m, attrs) ==
    [header_index |-> i,
     end_index    |-> j,
     timestamp    |-> m.ts,
     title        |-> m.title,
     fingerprint  |-> attrs.fingerprint,
     source       |-> attrs.source,
     status       |-> attrs.status,
     details      |-> attrs.details,
     review_note  |-> attrs.review_note]

Entry(lines, i, j) ==
    make_entry(i, j, ENTRY_HEADER_RE(At(lines, i)),
               scan_fields(lines, i + 1, j, NoAttrs))

\* The outer while loop of parse_entries, from index i with the entries
\* found so far.
RECURSIVE parse_from(_, _, _)
parse_record(lines, i, j, entries) ==
    parse_from(lines, j, Append(entries, Entry(lines, i, j)))

parse_from(lines, i, entries) ==
    IF i >= Len(lines) THEN entries
    ELSE IF ~ENTRY_HEADER_RE(At(lines, i)).matched
         THEN parse_from(lines, i + 1, entries)
    ELSE parse_record(lines, i, scan_to_header(lines, i + 1), entries)

parse_entries(lines) == parse_from(lines, 0, <<>>)

\* ------------------------------------------------------------------------
\* learningManager.py: the record store
\* ------------------------------------------------------------------------

\* load_lines(path): raises when no file is at the path.
load_lines(fs, path) ==
    IF path \notin DOMAIN fs.docs THEN Raise(ErrMissingFile)
    ELSE Ok(splitlines(read_text(fs.docs[path])))

\* Mutant: the joined text is written without the trimming.
save_lines_untrimmed(lines) == join("\n", lines) \o "\n"

\* The text save_lines writes: "\n".join(lines).rstrip() + "\n"
save_lines(lines) == rstrip(join("\n", lines)) \o "\n"

\* The loop of find_entry_by_fingerprint over entries from position n
\* (1-based): the first entry whose fingerprint equals the argument.
RECURSIVE find_entry_from(_, _, _)
find_entry_from(entries, n, fingerprint) ==
    IF n > Len(entries) THEN Raise(ErrFingerprint)
    ELSE IF entries[n].fingerprint = fingerprint THEN Ok(entries[n])
    ELSE find_entry_from(entries, n + 1, fingerprint)

\* Mutant: the loop keeps the last entry with the fingerprint.
find_entry_by_fingerprint_last(entries, fingerprint) ==
    IF \A n \in 1..Len(entries) : entries[n].fingerprint # fingerprint
    THEN Raise(ErrFingerprint)
    ELSE Ok(entries[CHOOSE n \in 1..Len(entries) :
                /\ entries[n].fingerprint = fingerprint
                /\ \A m \in (n + 1)..Len(entries) :
                       entries[m].fingerprint # fingerprint])

find_entry_by_fingerprint(entries, fingerprint) ==
    find_entry_from(entries, 1, fingerprint)

\* for i in range(lo, hi): if lines[i].startswith(target): the first such i,
\* or -1 when the loop ends without one.
RECURSIVE first_line_with_prefix(_, _, _, _)
first_line_with_prefix(lines, i, hi, target) ==
    IF i >= hi THEN -1
    ELSE IF startswith(At(lines, i), target) THEN i
    ELSE first_line_with_prefix(lines, i + 1, hi, target)

\* lines.insert(at, line)
list_insert(lines, at, line) ==
    LET n == IF at > Len(lines) THEN Len(lines) ELSE at
    IN  SubSeq(lines, 1, n) \o <<line>> \o SubSeq(lines, n + 1, Len(lines))

\* f"  - {key}: "
kv_target(key) == "  - " \o key \o ": "

\* Mutant: the line is always inserted.
update_or_insert_at_end(lines, entry, i, new_line) ==
    list_insert(lines, entry.end_index, new_line)

\* update_or_insert_kv(lines, entry, key, value): the list lines afterwards;
\* i is the index of the first line of the span with the target prefix.
update_or_insert_at(lines, entry, i, new_line) ==
    IF i >= 0 THEN [lines EXCEPT ![i + 1] = new_line]
    ELSE list_insert(lines, entry.end_index, new_line)

update_or_insert_kv(lines, entry, key, value) ==
    update_or_insert_at(lines, entry,
        first_line_with_prefix(lines, entry.header_index + 1,
                               entry.end_index, kv_target(key)),
        kv_target(key) \o value)

\* ------------------------------------------------------------------------
\* learningManager.py: cmd_review
\* ------------------------------------------------------------------------

\* The file system: docs maps the selector of each existing entries.md to
\* its text, skills maps the path of each existing SKILL.md to what was
\* written into it, dirs is the set of existing skill directories.  Paths
\* are relative to repo_dir.

\* What a command leaves behind: the exception it raised ("" when none) and
\* the file system afterwards.
Done(fs) == [error |-> "", fs |-> fs]

Failed(fs, e) == [error |-> e, fs |-> fs]

\* if reason.strip(): update_or_insert_kv(lines, entry, "reviewNote", ...)
review_note(lines, entry, reason) ==
    IF strip(reason) # ""
    THEN update_or_insert_kv(lines, entry, key_reviewNote, strip(reason))
    ELSE lines

\* The lines cmd_review saves: status is set, and reviewNote when the reason
\* is not blank, both with the entry parsed before the first update.
review_lines(lines, entry, status, reason) ==
    review_note(update_or_insert_kv(lines, entry, key_status, status),
                entry, reason)

\* cmd_review from the lookup of the record: found is what
\* find_entry_by_fingerprint returned or raised.
review_found(fs, doc, lines, found, status, reason) ==
    IF ~found.ok THEN Failed(fs, found.error)
    ELSE Done([fs EXCEPT !.docs[doc] =
            save_lines(review_lines(lines, found.value, status, reason))])

\* cmd_review from load_lines: loaded is what it returned or raised.
review_loaded(fs, doc, loaded, fingerprint, status, reason) ==
    IF ~loaded.ok THEN Failed(fs, loaded.error)
    ELSE review_found(fs, doc, loaded.value,
            find_entry_by_fingerprint(parse_entries(loaded.value),
                                      fingerprint),
            status, reason)

\* cmd_review from entries_path: path is what it returned or raised.
review_at(fs, path, fingerprint, status, reason) ==
    IF ~path.ok THEN Failed(fs, path.error)
    ELSE review_loaded(fs, path.value, load_lines(fs, path.value),
                       fingerprint, status, reason)

cmd_review(fs, source, fingerprint, status, reason) ==
    review_at(fs, entries_path(source), fingerprint, status, reason)

\* ------------------------------------------------------------------------
\* learningManager.py: cmd_promote
\* ------------------------------------------------------------------------

\* [a-zA-Z0-9-]
SlugChars == LowerChars \cup UpperChars \cup DigitChars \cup {"-"}

\* Mutant: every character outside the class becomes a hyphen of its own.
RECURSIVE sub_non_slug(_, _, _)
sub_non_slug_each(s, i, in_run) ==
    IF i > Len(s) THEN ""
    ELSE IF Char(s, i) \in SlugChars
         THEN Char(s, i) \o sub_non_slug(s, i + 1, FALSE)
    ELSE "-" \o sub_non_slug(s, i + 1, TRUE)

\* re.sub(r"[^a-zA-Z0-9-]+", "-", s): the scan from index i (1-based); in_run
\* tells that the previous character was already replaced.
sub_non_slug(s, i, in_run) ==
    IF i > Len(s) THEN ""
    ELSE IF Char(s, i) \in SlugChars
         THEN Char(s, i) \o sub_non_slug(s, i + 1, FALSE)
    ELSE IF in_run THEN sub_non_slug(s, i + 1, TRUE)
    ELSE "-" \o sub_non_slug(s, i + 1, TRUE)

\* The end of safe_slug: an empty slug raises.
checked_slug(slug) == IF slug = "" THEN Raise(ErrInvalidSlug) ELSE Ok(slug)

safe_slug(value) ==
    checked_slug(lower(lstrip_chars(
        rstrip_chars(sub_non_slug(strip(value), 1, FALSE), {"-"}), {"-"})))

dir_skills        == "cursor/skills/"
dir_skills_cursor ==
    "cursor/skills-cursor/"

\* skill_dir(repo_dir, target, slug), relative to repo_dir
skill_dir(target, slug) ==
    IF target = "skills" THEN Ok(dir_skills \o slug)
    ELSE IF target = "skills-cursor" THEN Ok(dir_skills_cursor \o slug)
    ELSE Raise(ErrUnsupportedTarget)

file_SKILL_md == "/SKILL.md"

\* The text create_skill_file writes, as the values it puts into the fixed
\* template: name, description, the heading, the fingerprint and the details.
create_skill_file(slug, description, title, details, fingerprint) ==
    [name        |-> slug,
     description |-> description,
     title       |-> title,
     fingerprint |-> fingerprint,
     details     |-> details]

text_promoted_learning ==
    "Promoted learning: "

text_promoted_to == "Promoted to "

\* description.strip() or f"Promoted learning: {entry.title}"
final_description(description, entry) ==
    IF strip(description) # "" THEN strip(description)
    ELSE text_promoted_learning \o entry.title

\* entry.details or ""
details_or_empty(entry) == IF entry.details = None THEN "" ELSE entry.details

\* Mutant: the status is compared after trimming, as the dashboard does.
status_not_promotable_trimmed(entry) ==
    (IF entry.status = None THEN "" ELSE strip(entry.status))
        \notin {st_approved, st_promoted}

\* entry.status not in {"approved", "promoted"}
status_not_promotable(entry) == entry.status \notin {st_approved, st_promoted}

\* The end of cmd_promote: the record found in the lines loaded again is
\* marked promoted and the document saved.
promoted_lines(lines, entry, destination_file) ==
    update_or_insert_kv(
        update_or_insert_kv(lines, entry, key_status, st_promoted),
        entry, key_reviewNote, text_promoted_to \o destination_file)

mark_found(fs, doc, lines, found, destination_file) ==
    IF ~found.ok THEN Failed(fs, found.error)
    ELSE Done([fs EXCEPT !.docs[doc] =
            save_lines(promoted_lines(lines, found.value, destination_file))])

mark_loaded(fs, doc, loaded, fingerprint, destination_file) ==
    IF ~loaded.ok THEN Failed(fs, loaded.error)
    ELSE mark_found(fs, doc, loaded.value,
            find_entry_by_fingerprint(parse_entries(loaded.value),
                                      fingerprint),
            destination_file)

\* The last part of cmd_promote: the document is loaded and parsed again.
mark_promoted(fs, doc, fingerprint, destination_file) ==
    mark_loaded(fs, doc, load_lines(fs, doc), fingerprint,
                destination_file)

\* The file system after path.write_text(body)
write_file(fs, path, body) ==
    [fs EXCEPT !.skills = [f \in DOMAIN @ \cup {path} |->
                              IF f = path THEN body ELSE @[f]]]

\* Mutant: no existence check, the file is written over.
write_if_absent_overwrite(fs, doc, entry, fingerprint, slug, description, destination_file) ==
    mark_promoted(
        write_file(fs, destination_file,
            create_skill_file(slug, final_description(description, entry),
                              entry.title, details_or_empty(entry),
                              fingerprint)),
        doc, fingerprint, destination_file)

\* Mutant: the existence check is skipped for a record already promoted.
write_if_absent_unless_promoted(fs, doc, entry, fingerprint, slug, description, destination_file) ==
    IF destination_file \in DOMAIN fs.skills /\ entry.status # st_promoted
    THEN Failed(fs, ErrSkillExists)
    ELSE write_if_absent_overwrite(fs, doc, entry, fingerprint, slug,
                                   description, destination_file)

\* cmd_promote from the existence check, the directory having been made.
write_if_absent(fs, doc, entry, fingerprint, slug, description, destination_file) ==
    IF destination_file \in DOMAIN fs.skills
    THEN Failed(fs, ErrSkillExists)
    ELSE mark_promoted(
            write_file(fs, destination_file,
                create_skill_file(slug, final_description(description, entry),
                                  entry.title, details_or_empty(entry),
                                  fingerprint)),
            doc, fingerprint, destination_file)

\* cmd_promote from skill_dir: destination_dir is what it returned or raised.
write_in_dir(fs, doc, entry, fingerprint, slug, description, destination_dir) ==
    IF ~destination_dir.ok THEN Failed(fs, destination_dir.error)
    ELSE write_if_absent(
            [fs EXCEPT !.dirs = @ \cup {destination_dir.value}],
            doc, entry, fingerprint, slug, description,
            destination_dir.value \o file_SKILL_md)

\* cmd_promote from safe_slug: normalized is what it returned or raised.
write_skill(fs, doc, entry, fingerprint, normalized, description, target) ==
    IF ~normalized.ok THEN Failed(fs, normalized.error)
    ELSE write_in_dir(fs, doc, entry, fingerprint, normalized.value,
                      description, skill_dir(target, normalized.value))

\* Mutant: the slug is normalized before the status is looked at.
promote_found_slug_first(fs, doc, found, fingerprint, slug, description, target) ==
    IF ~found.ok THEN Failed(fs, found.error)
    ELSE IF ~safe_slug(slug).ok THEN Failed(fs, ErrInvalidSlug)
    ELSE IF status_not_promotable(found.value) THEN Failed(fs, ErrStatus)
    ELSE write_skill(fs, doc, found.value, fingerprint, safe_slug(slug),
                     description, target)

\* cmd_promote from the lookup of the record.
promote_found(fs, doc, found, fingerprint, slug, description, target) ==
    IF ~found.ok THEN Failed(fs, found.error)
    ELSE IF status_not_promotable(found.value) THEN Failed(fs, ErrStatus)
    ELSE write_skill(fs, doc, found.value, fingerprint, safe_slug(slug),
                     description, target)

\* cmd_promote from load_lines.
promote_loaded(fs, doc, loaded, fingerprint, slug, description, target) ==
    IF ~loaded.ok THEN Failed(fs, loaded.error)
    ELSE promote_found(fs, doc,
            find_entry_by_fingerprint(parse_entries(loaded.value),
                                      fingerprint),
            fingerprint, slug, description, target)

\* cmd_promote from entries_path.
promote_at(fs, path, fingerprint, slug, description, target) ==
    IF ~path.ok THEN Failed(fs, path.error)
    ELSE promote_loaded(fs, path.value, load_lines(fs, path.value),
                        fingerprint, slug, description, target)

cmd_promote(fs, source, fingerprint, slug, description, target) ==
    promote_at(fs, entries_path(source), fingerprint, slug, description,
               target)

\* ------------------------------------------------------------------------
\* learningUiServer.py: build_dashboard; learningManager.py: cmd_dashboard
\* ------------------------------------------------------------------------

\* (e.status or "").strip()
trimmed_status(entry) ==
    IF entry.status = None THEN "" ELSE strip(entry.status)

\* [{"source": source, "entry": e} for e in entries]
tagged(source, entries) ==
    [k \in 1..Len(entries) |-> [source |-> source, entry |-> entries[k]]]

\* Mutant: the status is compared as parsed, without trimming.
bucket_untrimmed(all_entries, name) ==
    LET in_bucket(x) == x.entry.status = name
    IN  SelectSeq(all_entries, in_bucket)

\* [x for x in all_entries if (x["entry"].status or "").strip() == name]
bucket(all_entries, name) ==
    LET in_bucket(x) == trimmed_status(x.entry) = name
    IN  SelectSeq(all_entries, in_bucket)

\* items[:limit]
slice_to(items, limit) ==
    LET n == IF limit >= 0 THEN limit ELSE Len(items) + limit
    IN  SubSeq(items, 1, IF n > Len(items) THEN Len(items) ELSE n)

\* serialize(items): the record fields without the span
serialize(items) ==
    [k \in 1..Len(items) |->
        [source      |-> items[k].source,
         timestamp   |-> items[k].entry.timestamp,
         title       |-> items[k].entry.title,
         fingerprint |-> items[k].entry.fingerprint,
         status      |-> items[k].entry.status,
         details     |-> items[k].entry.details,
         reviewNote  |-> items[k].entry.review_note]]

\* The entries of both documents, manual first; raises when one is missing.
both_loaded(manual, generated) ==
    IF ~manual.ok THEN manual
    ELSE IF ~generated.ok THEN generated
    ELSE Ok(tagged("manual", parse_entries(manual.value))
            \o tagged("generated", parse_entries(generated.value)))

all_entries_of(fs) ==
    both_loaded(load_lines(fs, "manual"), load_lines(fs, "generated"))

\* The four counts
counts_of(all_entries) ==
    [pending  |-> Len(bucket(all_entries, st_pending)),
     approved |-> Len(bucket(all_entries, st_approved)),
     rejected |-> Len(bucket(all_entries, st_rejected)),
     promoted |-> Len(bucket(all_entries, st_promoted))]

dashboard_of(loaded, limit) ==
    IF ~loaded.ok THEN loaded
    ELSE Ok([counts  |-> counts_of(loaded.value),
             pending |-> serialize(slice_to(bucket(loaded.value, st_pending),
                                            limit)),
             all     |-> serialize(loaded.value)])

build_dashboard(fs, limit) == dashboard_of(all_entries_of(fs), limit)

\* value or default, for an optional str
or_default(value, default) ==
    IF value = None \/ value = "" THEN default ELSE value

\* print(f"- [{src}] {entry.title}") and the two lines after it
printed(top) ==
    [k \in 1..Len(top) |->
        [source      |-> top[k].source,
         title       |-> top[k].entry.title,
         fingerprint |-> or_default(top[k].entry.fingerprint, "n/a"),
         details     |-> or_default(top[k].entry.details, "")]]

\* What cmd_dashboard prints: the four counts and the first pending entries.
printed_dashboard(loaded, limit) ==
    IF ~loaded.ok THEN loaded
    ELSE Ok([counts  |-> counts_of(loaded.value),
             pending |-> printed(slice_to(bucket(loaded.value, st_pending),
                                          limit))])

cmd_dashboard(fs, limit) == printed_dashboard(all_entries_of(fs), limit)

\* ------------------------------------------------------------------------
\* Bounds and inputs
\* ------------------------------------------------------------------------

\* The number of requests in a run.
MaxOps == 2

\* The largest limit a dashboard request gives.
MaxLimit == 1

header(ts, title) == "- [" \o ts \o "] " \o title

field(key, value) == kv_target(key) \o value

\* A file of the given lines, each ended by "\n".
text(lines) == join("\n", lines) \o "\n"

\* The same file with "\r\n" line ends.
text_crlf(lines) == join("\r\n", lines) \o "\r\n"

fp_a == "a"
fp_b == "b"

head_A == header("t1", "A")
head_B == header("t2", "B")
head_G == header("t3", "G")

line_other == "  - other: x"
line_notes == "# notes"

\* Two records sharing one fingerprint, and two with different ones.
doc_two_records ==
    text(<<head_A, field(key_fingerprint, fp_a),
           head_B, field(key_fingerprint, fp_b),
           field(key_status, st_approved),
           field(key_details, "d")>>)

doc_shared_fingerprint ==
    text(<<line_notes, head_A, field(key_fingerprint, fp_a),
           field(key_status, st_approved), line_other, "",
           head_B, field(key_fingerprint, fp_a),
           field(key_status, st_pending)>>)

\* The documents learning/manual/entries.md starts as: the scenario of one
\* pending record; two records that share a fingerprint, between inert and
\* unrecognized lines; a record with neither status nor reviewNote, then a
\* second one; a record whose status key appears twice; a file with "\r\n"
\* line ends; a file ending in white space after its last value; an empty
\* file.
ManualDocs ==
    { text(<<head_A, field(key_fingerprint, fp_a),
             field(key_status, st_pending)>>),
      doc_shared_fingerprint,
      doc_two_records,
      text(<<head_A, field(key_fingerprint, fp_a),
             field(key_status, st_pending),
             field(key_status, st_approved)>>),
      text_crlf(<<head_A, field(key_fingerprint, fp_a),
                  field(key_status, st_approved)>>),
      text(<<head_A, field(key_fingerprint, fp_a),
             field(key_status, st_approved),
             field(key_details, "d "), "">>),
      "" }

\* learning/generated/entries.md
GeneratedDoc ==
    text(<<head_G, field(key_fingerprint, fp_b),
           field(key_status, st_rejected)>>)

\* A status that carries a line break and a header line.
st_injected == "x\n" \o header("t9", "Z")

reason_ok == " ok "

slug_spaced  == "My Pattern"
slug_plain   == "my-pattern"
slug_hyphens == "--"

desc_given == " d "

NoRequest ==
    [op |-> "none", source |-> "", fingerprint |-> "", status |-> "",
     reason |-> "", slug |-> "", description |-> "", target |-> "",
     limit |-> 0]

ReviewRequest(source, fingerprint, status, reason) ==
    [NoRequest EXCEPT !.op = "review", !.source = source,
                      !.fingerprint = fingerprint, !.status = status,
                      !.reason = reason]

PromoteRequest(source, fingerprint, slug, description, target) ==
    [NoRequest EXCEPT !.op = "promote", !.source = source,
                      !.fingerprint = fingerprint, !.slug = slug,
                      !.description = description, !.target = target]

\* The review requests of the model: on the manual document, for one
\* fingerprint every status and reason below and for the other two of them;
\* one on the generated document and one with an unknown selector.
ReviewRequests ==
    { ReviewRequest("manual", fp_a, sr[1], sr[2]) :
        sr \in { <<st_approved, "">>, <<st_approved, reason_ok>>,
                 <<st_rejected, reason_ok>>, <<st_pending, "">>,
                 <<" " \o st_approved, "">>, <<"", "">>,
                 <<st_injected, "">> } }
    \cup { ReviewRequest("manual", fp_b, st_pending, reason_ok),
           ReviewRequest("manual", fp_b, " " \o st_approved, ""),
           ReviewRequest("generated", fp_b, st_approved, ""),
           ReviewRequest("archive", fp_a, st_approved, "") }

\* The promote requests of the model: for one fingerprint two slugs with the
\* same normal form into both namespaces; a given description; a slug that
\* normalizes to nothing; the other fingerprint; an unknown namespace, with
\* a slug and with one that normalizes to nothing; the generated document;
\* an unknown selector.
PromoteRequests ==
    { PromoteRequest("manual", fp_a, s, "", t) :
        s \in {slug_spaced, slug_plain}, t \in {"skills", "skills-cursor"} }
    \cup { PromoteRequest("manual", fp_a, slug_spaced, desc_given, "skills"),
           PromoteRequest("manual", fp_a, slug_hyphens, "", "skills"),
           PromoteRequest("manual", fp_b, slug_plain, "", "skills"),
           PromoteRequest("manual", fp_a, slug_plain, "", "codex"),
           PromoteRequest("manual", fp_a, slug_hyphens, "", "codex"),
           PromoteRequest("generated", fp_b, slug_plain, "", "skills"),
           PromoteRequest("archive", fp_a, slug_plain, "", "skills") }

\* ------------------------------------------------------------------------
\* The state machine: requests handled one at a time
\* ------------------------------------------------------------------------

VARIABLES
    docs,       \* selector of each existing entries.md -> its text
    skills,     \* path of a SKILL.md -> what it holds
    dirs,       \* the skill directories that exist
    promotions, \* history: the promote calls that returned, and their files
    request,    \* the request handled last
    response,   \* its result: the error raised ("" when none) and the data
    before,     \* docs, skills, dirs, promotions when that request arrived
    nops,       \* the number of requests handled
    threads,    \* concurrent requests: thread -> what it holds
    logs,       \* learning/action-logs.jsonl when it exists -> its text
    clock,      \* the server's time
    events      \* history: the events written to the log, oldest first

vars == <<docs, skills, dirs, promotions, request, response, before, nops,
          threads, logs, clock, events>>

\* The state of the record store, and of the event log.
store_vars == <<docs, skills, dirs, promotions>>

log_vars == <<logs, clock, events>>

\* No event log yet.
NoLog == logs = <<>> /\ clock = 0 /\ events = <<>>

fs_now == [docs |-> docs, skills |-> skills, dirs |-> dirs]

NoResponse == [error |-> "", data |-> <<>>]

Init ==
    /\ docs \in {[manual |-> m, generated |-> GeneratedDoc] : m \in ManualDocs}
                \cup {[generated |-> GeneratedDoc]}
    /\ skills = <<>>
    /\ dirs = {}
    /\ promotions = {}
    /\ request = NoRequest
    /\ response = NoResponse
    /\ before = [docs |-> docs, skills |-> skills, dirs |-> dirs,
                 promotions |-> promotions]
    /\ nops = 0
    /\ threads = <<>>
    /\ NoLog

\* The promote calls that have returned without raising, req being the one
\* just handled: its selector and fingerprint, and the file it created.
promotions_after(req, error, fs) ==
    IF req.op = "promote" /\ error = ""
    THEN promotions \cup
            {[source |-> req.source, fingerprint |-> req.fingerprint,
              file |-> f] : f \in DOMAIN fs.skills \ DOMAIN skills}
    ELSE promotions

\* The file system becomes fs, and the request and its result are recorded.
Handled(req, error, data, fs) ==
    /\ docs' = fs.docs
    /\ skills' = fs.skills
    /\ dirs' = fs.dirs
    /\ promotions' = promotions_after(req, error, fs)
    /\ request' = req
    /\ response' = [error |-> error, data |-> data]
    /\ before' = [docs |-> docs, skills |-> skills, dirs |-> dirs,
                  promotions |-> promotions]
    /\ nops' = nops + 1
    /\ UNCHANGED <<threads, log_vars>>

\* done is what the command left behind.
Finished(req, done) == Handled(req, done.error, <<>>, done.fs)

\* built is what the dashboard returned or raised.
Answered(req, built) == Handled(req, built.error, built.value, fs_now)

\* POST /api/review, or the review command
Review ==
    \E req \in ReviewRequests :
        /\ nops < MaxOps
        /\ Finished(req, cmd_review(fs_now, req.source, req.fingerprint,
                                    req.status, req.reason))

\* POST /api/promote, or the promote command
Promote ==
    \E req \in PromoteRequests :
        /\ nops < MaxOps
        /\ Finished(req, cmd_promote(fs_now, req.source, req.fingerprint,
                                     req.slug, req.description, req.target))

\* GET /api/dashboard
Dashboard ==
    \E limit \in 0..MaxLimit :
        /\ nops < MaxOps
        /\ Answered([NoRequest EXCEPT !.op = "dashboard", !.limit = limit],
                    build_dashboard(fs_now, limit))

\* The dashboard command
CliDashboard ==
    \E limit \in 0..MaxLimit :
        /\ nops < MaxOps
        /\ Answered([NoRequest EXCEPT !.op = "cli-dashboard",
                                      !.limit = limit],
                    cmd_dashboard(fs_now, limit))

Next == Review \/ Promote \/ Dashboard \/ CliDashboard

Spec == Init /\ [][Next]_vars

\* ------------------------------------------------------------------------
\* learningUiServer.py: requests handled by concurrent threads
\* ------------------------------------------------------------------------

\* ThreadingHTTPServer runs each request in a thread of its own.
Threads == {"t1", "t2"}

NoEntry == make_entry(0, 0, [ts |-> "", title |-> ""], NoAttrs)

\* What a thread holds when it starts on req: the locals of the command
\* (doc is the path, dir and file the destination), where it stands (pc),
\* the error it raised, and for the properties the text it loaded last
\* (read), the rank of its write among the writes of skill files (wrote)
\* and its rank among the finished commands (finished).
Started(req) ==
    [req |-> req, pc |-> "load", doc |-> "", lines |-> <<>>,
     entry |-> NoEntry, slug |-> "", dir |-> "", file |-> "",
     error |-> "", read |-> "", wrote |-> 0, finished |-> 0]

\* The thread after the command raised e.
Stopped(th, e) == [th EXCEPT !.pc = "done", !.error = e]

\* cmd_review before save_lines: the record is looked up in the lines
\* loaded and the lines are changed in memory.
review_held_found(th, doc, content, lines, found) ==
    IF ~found.ok THEN Stopped(th, found.error)
    ELSE [th EXCEPT !.pc = "save", !.doc = doc, !.read = content,
             !.lines = review_lines(lines, found.value, th.req.status,
                                    th.req.reason)]

review_held_loaded(th, fs, doc, loaded) ==
    IF ~loaded.ok THEN Stopped(th, loaded.error)
    ELSE review_held_found(th, doc, fs.docs[doc], loaded.value,
            find_entry_by_fingerprint(parse_entries(loaded.value),
                                      th.req.fingerprint))

review_held_at(th, fs, path) ==
    IF ~path.ok THEN Stopped(th, path.error)
    ELSE review_held_loaded(th, fs, path.value, load_lines(fs, path.value))

review_held(th, fs) == review_held_at(th, fs, entries_path(th.req.source))

\* Mutant: the save loads the document again and applies the review to it.
held_saved_reloaded(th, fs) ==
    IF th.req.op = "review"
    THEN cmd_review(fs, th.req.source, th.req.fingerprint, th.req.status,
                    th.req.reason).fs.docs
    ELSE [fs.docs EXCEPT ![th.doc] = save_lines(th.lines)]

\* save_lines(path, lines) with the lines the thread holds: the documents
\* afterwards.
held_saved(th, fs) == [fs.docs EXCEPT ![th.doc] = save_lines(th.lines)]

\* cmd_promote before mkdir: the record is looked up, its status checked,
\* the slug normalized and the destination named.
promote_held_dir(th, doc, content, entry, slug, destination_dir) ==
    IF ~destination_dir.ok THEN Stopped(th, destination_dir.error)
    ELSE [th EXCEPT !.pc = "mkdir", !.doc = doc, !.read = content,
             !.entry = entry, !.slug = slug,
             !.dir = destination_dir.value,
             !.file = destination_dir.value \o file_SKILL_md]

promote_held_slug(th, doc, content, entry, normalized) ==
    IF ~normalized.ok THEN Stopped(th, normalized.error)
    ELSE promote_held_dir(th, doc, content, entry, normalized.value,
                          skill_dir(th.req.target, normalized.value))

promote_held_found(th, doc, content, found) ==
    IF ~found.ok THEN Stopped(th, found.error)
    ELSE IF status_not_promotable(found.value) THEN Stopped(th, ErrStatus)
    ELSE promote_held_slug(th, doc, content, found.value,
                           safe_slug(th.req.slug))

promote_held_loaded(th, fs, doc, loaded) ==
    IF ~loaded.ok THEN Stopped(th, loaded.error)
    ELSE promote_held_found(th, doc, fs.docs[doc],
            find_entry_by_fingerprint(parse_entries(loaded.value),
                                      th.req.fingerprint))

promote_held_at(th, fs, path) ==
    IF ~path.ok THEN Stopped(th, path.error)
    ELSE promote_held_loaded(th, fs, path.value,
                             load_lines(fs, path.value))

promote_held(th, fs) == promote_held_at(th, fs, entries_path(th.req.source))

\* if destination_file.exists(): raise
exists_checked(th, fs) ==
    IF th.file \in DOMAIN fs.skills THEN Stopped(th, ErrSkillExists)
    ELSE [th EXCEPT !.pc = "write"]

\* The text cmd_promote hands to create_skill_file.
skill_body(th) ==
    create_skill_file(th.slug,
                      final_description(th.req.description, th.entry),
                      th.entry.title, details_or_empty(th.entry),
                      th.req.fingerprint)

\* Mutant: the file is created exclusively, an existing one is kept.
skill_written_exclusive(th, fs) ==
    IF th.file \in DOMAIN fs.skills THEN fs.skills
    ELSE write_file(fs, th.file, skill_body(th)).skills

\* create_skill_file(...): the skill files afterwards.
skill_written(th, fs) == write_file(fs, th.file, skill_body(th)).skills

\* cmd_promote after the write: the document is loaded and parsed again and
\* the record marked in memory.
marked_held_found(th, content, lines, found) ==
    IF ~found.ok THEN Stopped(th, found.error)
    ELSE [th EXCEPT !.pc = "save", !.read = content,
             !.lines = promoted_lines(lines, found.value, th.file)]

marked_held_loaded(th, fs, loaded) ==
    IF ~loaded.ok THEN Stopped(th, loaded.error)
    ELSE marked_held_found(th, fs.docs[th.doc], loaded.value,
            find_entry_by_fingerprint(parse_entries(loaded.value),
                                      th.req.fingerprint))

marked_held(th, fs) == marked_held_loaded(th, fs, load_lines(fs, th.doc))

\* The documents of the concurrent runs: two records with different
\* fingerprints, and two records sharing one.
ConcurrentDocs == {doc_two_records, doc_shared_fingerprint}

\* The requests of the concurrent runs: reviews of both fingerprints, two
\* promotions of one record under slugs with the same normal form, a
\* promotion of the other record, and a request with an unknown selector.
ConcurrentRequests ==
    { ReviewRequest("manual", fp_a, st_rejected, reason_ok),
      ReviewRequest("manual", fp_b, st_pending, ""),
      PromoteRequest("manual", fp_b, slug_plain, "", "skills"),
      PromoteRequest("manual", fp_b, slug_spaced, desc_given, "skills"),
      PromoteRequest("manual", fp_a, slug_plain, "", "skills"),
      ReviewRequest("archive", fp_a, st_approved, "") }

ConcurrentInit ==
    /\ docs \in {[manual |-> m, generated |-> GeneratedDoc] :
                    m \in ConcurrentDocs}
    /\ skills = <<>>
    /\ dirs = {}
    /\ promotions = {}
    /\ request = NoRequest
    /\ response = NoResponse
    /\ before = [docs |-> docs, skills |-> skills, dirs |-> dirs,
                 promotions |-> promotions]
    /\ nops = 0
    /\ threads \in [Threads -> {Started(req) : req \in ConcurrentRequests}]
    /\ NoLog

\* Thread t becomes th and the file system fs; a thread that is done takes
\* the next rank.
Stepped(t, th, fs) ==
    /\ threads' = [threads EXCEPT ![t] =
                      IF th.pc = "done"
                      THEN [th EXCEPT !.finished = nops + 1] ELSE th]
    /\ nops' = IF th.pc = "done" THEN nops + 1 ELSE nops
    /\ docs' = fs.docs
    /\ skills' = fs.skills
    /\ dirs' = fs.dirs
    /\ UNCHANGED <<promotions, request, response, before, log_vars>>

\* cmd_review up to save_lines
ReviewLoad(t) ==
    /\ threads[t].pc = "load"
    /\ threads[t].req.op = "review"
    /\ Stepped(t, review_held(threads[t], fs_now), fs_now)

\* cmd_review: save_lines
ReviewSave(t) ==
    /\ threads[t].pc = "save"
    /\ threads[t].req.op = "review"
    /\ Stepped(t, [threads[t] EXCEPT !.pc = "done"],
               [fs_now EXCEPT !.docs = held_saved(threads[t], fs_now)])

\* cmd_promote up to mkdir
PromoteLoad(t) ==
    /\ threads[t].pc = "load"
    /\ threads[t].req.op = "promote"
    /\ Stepped(t, promote_held(threads[t], fs_now), fs_now)

\* cmd_promote: destination_dir.mkdir(parents=True, exist_ok=True)
PromoteMkdir(t) ==
    /\ threads[t].pc = "mkdir"
    /\ Stepped(t, [threads[t] EXCEPT !.pc = "exists"],
               [fs_now EXCEPT !.dirs = @ \cup {threads[t].dir}])

\* cmd_promote: if destination_file.exists()
PromoteExists(t) ==
    /\ threads[t].pc = "exists"
    /\ Stepped(t, exists_checked(threads[t], fs_now), fs_now)

\* cmd_promote: create_skill_file
PromoteWrite(t) ==
    /\ threads[t].pc = "write"
    /\ Stepped(t, [threads[t] EXCEPT !.pc = "reload",
                       !.wrote = 1 + Cardinality({u \in Threads :
                                         threads[u].wrote > 0})],
               [fs_now EXCEPT !.skills = skill_written(threads[t], fs_now)])

\* cmd_promote: the second load_lines up to save_lines
PromoteReload(t) ==
    /\ threads[t].pc = "reload"
    /\ Stepped(t, marked_held(threads[t], fs_now), fs_now)

\* cmd_promote: save_lines
PromoteSave(t) ==
    /\ threads[t].pc = "save"
    /\ threads[t].req.op = "promote"
    /\ Stepped(t, [threads[t] EXCEPT !.pc = "done"],
               [fs_now EXCEPT !.docs = held_saved(threads[t], fs_now)])

ConcurrentNext ==
    \E t \in Threads :
        \/ ReviewLoad(t)
        \/ ReviewSave(t)
        \/ PromoteLoad(t)
        \/ PromoteMkdir(t)
        \/ PromoteExists(t)
        \/ PromoteWrite(t)
        \/ PromoteReload(t)
        \/ PromoteSave(t)

SpecConcurrent == ConcurrentInit /\ [][ConcurrentNext]_vars

\* ------------------------------------------------------------------------
\* learningManager.py: safe_slug applied to the slugs of a bounded alphabet
\* ------------------------------------------------------------------------

MaxSlugLen == 4

\* A lower and an upper case letter, a digit, the hyphen, white space, a
\* character outside the class that is not white space, and a letter
\* outside ASCII whose lower case is inside it.
SlugAlphabet == {"a", "B", "1", "-", " ", "_", KelvinSign}

\* The strings over the alphabet of length n at most.
RECURSIVE SlugsUpTo(_)
SlugsUpTo(n) ==
    IF n = 0 THEN {""}
    ELSE SlugsUpTo(n - 1)
         \cup {s \o c : s \in SlugsUpTo(n - 1), c \in SlugAlphabet}

SlugRequest(op, slug) == [NoRequest EXCEPT !.op = op, !.slug = slug]

\* What safe_slug returned or raised, as a response.
slug_response(normalized) ==
    IF normalized.ok THEN [error |-> "", data |-> normalized.value]
    ELSE [error |-> normalized.error, data |-> <<>>]

SlugInit ==
    /\ docs = [generated |-> GeneratedDoc]
    /\ skills = <<>>
    /\ dirs = {}
    /\ promotions = {}
    /\ request \in {SlugRequest("slug", s) : s \in SlugsUpTo(MaxSlugLen)}
    /\ response = NoResponse
    /\ before = [docs |-> docs, skills |-> skills, dirs |-> dirs,
                 promotions |-> promotions]
    /\ nops = 0
    /\ threads = <<>>
    /\ NoLog

\* safe_slug(slug) on the slug drawn
Normalize ==
    /\ nops = 0
    /\ response' = slug_response(safe_slug(request.slug))
    /\ nops' = 1
    /\ UNCHANGED <<store_vars, request, before, threads, log_vars>>

\* safe_slug on the slug it returned
Renormalize ==
    /\ nops = 1
    /\ response.error = ""
    /\ request' = SlugRequest("slug-again", response.data)
    /\ response' = slug_response(safe_slug(response.data))
    /\ nops' = 2
    /\ UNCHANGED <<store_vars, before, threads, log_vars>>

SlugNext == Normalize \/ Renormalize

SpecSlug == SlugInit /\ [][SlugNext]_vars

\* ------------------------------------------------------------------------
\* learningUiServer.py: the event log (read_logs, append_log)
\* ------------------------------------------------------------------------

\* logs_file_path(repo_dir), relative to repo_dir
logs_file_path == "learning/action-logs.jsonl"

\* dict.get(key, default)
dict_get(payload, key, default) ==
    IF key \in DOMAIN payload THEN payload[key] ELSE default

\* The escape json.dumps writes for one character of a str (those the
\* model's texts can hold).
json_escape_char(c) ==
    CASE c = "\"" -> "\\\""
      [] c = "\\" -> "\\\\"
      [] c = "\n" -> "\\n"
      [] c = "\r" -> "\\r"
      [] c = "\t" -> "\\t"
      [] OTHER -> c

RECURSIVE json_escape(_)
json_escape(s) ==
    IF s = "" THEN "" ELSE json_escape_char(Head(s)) \o json_escape(Tail(s))

\* json.dumps of a str
dumps_str(s) == "\"" \o json_escape(s) \o "\""

\* json.dumps(record, ensure_ascii=True) of a dict with str values, keys
\* being its keys in insertion order.
RECURSIVE dumps_members(_, _)
dumps_members(record, keys) ==
    IF keys = <<>> THEN ""
    ELSE dumps_str(keys[1]) \o ": " \o dumps_str(record[keys[1]])
         \o (IF Len(keys) = 1 THEN "" ELSE ", ")
         \o dumps_members(record, Tail(keys))

dumps(record, keys) == "{" \o dumps_members(record, keys) \o "}"

ErrJSONDecode == "Expecting value"

\* The character a JSON escape stands for.
json_unescape_char(c) ==
    CASE c = "n" -> "\n"
      [] c = "r" -> "\r"
      [] c = "t" -> "\t"
      [] OTHER -> c

\* The str a JSON string token stands for, bs being the index of its first
\* backslash (0 when there is none).
RECURSIVE json_unescape(_)
json_unescape_at(s, bs) ==
    IF bs = 0 THEN s
    ELSE SubSeq(s, 1, bs - 1) \o json_unescape_char(Char(s, bs + 1))
         \o json_unescape(SubSeq(s, bs + 2, Len(s)))

json_unescape(s) == json_unescape_at(s, find_char(s, 1, {"\\"}))

\* The index of the quote that closes the JSON string whose first character
\* is at i, or 0 when it is not closed; k is the index of the first quote
\* or backslash at or after i.
RECURSIVE string_end(_, _)
string_end_at(s, k) ==
    IF k = 0 THEN 0
    ELSE IF Char(s, k) = "\"" THEN k
    ELSE IF k + 1 > Len(s) THEN 0
    ELSE string_end(s, k + 2)

string_end(s, i) == string_end_at(s, find_char(s, i, {"\"", "\\"}))

\* s[i - 1 : i - 1 + n] of a Python str: the n characters from the i-th
\* on, or as many as there are.
peek(s, i, n) ==
    IF i > Len(s) THEN ""
    ELSE SubSeq(s, i, IF i + n - 1 > Len(s) THEN Len(s) ELSE i + n - 1)

\* json.loads(line) for the lines the model's log can hold: an object whose
\* members are strs, as json.dumps writes it, gives the dict; every other
\* line of the model is not JSON and raises JSONDecodeError.  The members
\* are read from index i, record being the dict read so far: key_end and
\* value_end are the closing quotes of the key and of the value.
RECURSIVE loads_members(_, _, _)
loads_value(line, i, key_end, value_end, record) ==
    IF value_end = 0 THEN Raise(ErrJSONDecode)
    ELSE IF peek(line, value_end + 1, Len(line)) = "}"
         THEN Ok((json_unescape(SubSeq(line, i + 1, key_end - 1)) :>
                  json_unescape(SubSeq(line, key_end + 4, value_end - 1)))
                 @@ record)
    ELSE IF peek(line, value_end + 1, 2) = ", "
         THEN loads_members(line, value_end + 3,
                 (json_unescape(SubSeq(line, i + 1, key_end - 1)) :>
                  json_unescape(SubSeq(line, key_end + 4, value_end - 1)))
                 @@ record)
    ELSE Raise(ErrJSONDecode)

loads_key(line, i, key_end, record) ==
    IF key_end = 0 \/ peek(line, key_end + 1, 3) # ": \""
    THEN Raise(ErrJSONDecode)
    ELSE loads_value(line, i, key_end, string_end(line, key_end + 4), record)

loads_members(line, i, record) ==
    IF peek(line, i, 1) # "\"" THEN Raise(ErrJSONDecode)
    ELSE loads_key(line, i, string_end(line, i + 1), record)

loads(line) ==
    IF line = "{}" THEN Ok(<<>>)
    ELSE IF ~startswith(line, "{") THEN Raise(ErrJSONDecode)
    ELSE loads_members(line, 2, <<>>)

\* The loop of read_logs over lines from position n (1-based): blank lines
\* and lines json.loads rejects are skipped.
RECURSIVE read_records(_, _, _)
read_record(lines, n, records, loaded) ==
    read_records(lines, n + 1,
                 IF loaded.ok THEN Append(records, loaded.value)
                 ELSE records)

read_records(lines, n, records) ==
    IF n > Len(lines) THEN records
    ELSE IF strip(lines[n]) = "" THEN read_records(lines, n + 1, records)
    ELSE read_record(lines, n, records, loads(lines[n]))

\* records[start:] of a Python list, for any int start
slice_from(records, start) ==
    IF start >= 0 THEN SubSeq(records, start + 1, Len(records))
    ELSE IF Len(records) + start <= 0 THEN records
    ELSE SubSeq(records, Len(records) + start + 1, Len(records))

\* list(reversed(records))
reversed(records) ==
    [n \in 1..Len(records) |-> records[Len(records) + 1 - n]]

\* read_logs(repo_dir, limit), files being the log file when it exists
read_logs(files, limit) ==
    IF logs_file_path \notin DOMAIN files THEN <<>>
    ELSE reversed(slice_from(
            read_records(splitlines(read_text(files[logs_file_path])), 1,
                         <<>>),
            0 - limit))

\* The keys of the record append_log writes, in its order.
k_timestamp == "timestamp"
k_type      == "type"
k_title     == "title"
k_skillPath == "skillPath"

RecordKeys ==
    <<k_timestamp, k_type, k_title, key_source, key_status, "reason",
      k_skillPath>>

\* datetime.now(UTC).isoformat() at time t
isoformat(t) == "2026-01-01T00:00:0" \o ToString(t) \o "+00:00"

\* The record append_log builds from the payload at time t.
log_record(payload, t) ==
    (k_timestamp :> isoformat(t))
    @@ (k_type :> dict_get(payload, k_type, "event"))
    @@ (k_title :> dict_get(payload, k_title, ""))
    @@ (key_source :> dict_get(payload, key_source, ""))
    @@ (key_status :> dict_get(payload, key_status, ""))
    @@ ("reason" :> dict_get(payload, "reason", ""))
    @@ (k_skillPath :> dict_get(payload, k_skillPath, ""))

\* handle.write(line) on the file opened with mode "a"
appended_to(files, line) ==
    IF logs_file_path \in DOMAIN files
    THEN [files EXCEPT ![logs_file_path] = @ \o line]
    ELSE (logs_file_path :> line)

ErrNoGet == "'list' object has no attribute 'get'"
ErrOS    == "[Errno 28] No space left on device"

\* A JSON body that is an object, and one that is an array.
JsonObject(fields) == [json |-> "object", fields |-> fields]

JsonArray == [json |-> "array", fields |-> <<>>]

\* append_log(repo_dir, payload) at time t: what it returned or raised, the
\* value being the log file afterwards; writable tells whether the
\* directory and the file can be written.
append_log(files, payload, t, writable) ==
    IF ~writable THEN Raise(ErrOS)
    ELSE IF payload.json # "object" THEN Raise(ErrNoGet)
    ELSE Ok(appended_to(files,
                dumps(log_record(payload.fields, t), RecordKeys) \o "\n"))

\* The event payloads of the model: an empty object; an object with a title
\* only; an object with every field, a timestamp of the caller's, and a
\* title with a quote, a backslash and a line break; an array.
payload_full ==
    (k_timestamp :> "1999-12-31") @@ (k_type :> "review")
    @@ (k_title :> "say \"a\\b\"\nnow") @@ (key_source :> "manual")
    @@ (key_status :> st_approved) @@ ("reason" :> reason_ok)
    @@ (k_skillPath :> dir_skills \o slug_plain)

Payloads ==
    {JsonObject(<<>>), JsonObject((k_title :> "B")),
     JsonObject(payload_full), JsonArray}

MaxLogLimit == 2

\* Two events written before the server started, and the lines of a log
\* that holds them among a blank line and two lines that are not JSON.
event_old ==
    log_record((k_type :> "promote") @@ (k_title :> "A"), 0)

event_older ==
    log_record((k_type :> "review") @@ (key_status :> st_approved), 0)

line_blank == "  "
line_cut   == "{\"timestamp\": \"2025"
line_text  == "restarted"

LogsAtStart ==
    { <<>>,
      (logs_file_path :> ""),
      (logs_file_path :>
          text(<<dumps(event_older, RecordKeys), line_text,
                 dumps(event_old, RecordKeys), line_blank, line_cut>>)) }

LogInit ==
    /\ docs = [generated |-> GeneratedDoc]
    /\ skills = <<>>
    /\ dirs = {}
    /\ promotions = {}
    /\ request = NoRequest
    /\ response = NoResponse
    /\ nops = 0
    /\ threads = <<>>
    /\ logs \in LogsAtStart
    /\ clock = 1
    /\ events = IF logs_file_path \in DOMAIN logs /\ logs[logs_file_path] # ""
                THEN <<event_older, event_old>> ELSE <<>>
    /\ before = [logs |-> logs, events |-> events]

LogRequest(op, payload, limit) ==
    [op |-> op, payload |-> payload, limit |-> limit]

\* The request is answered: the log becomes files, event is what was
\* written, and time passes.
LogHandled(req, error, data, files, written) ==
    /\ request' = req
    /\ response' = [error |-> error, data |-> data]
    /\ before' = [logs |-> logs, events |-> events]
    /\ logs' = files
    /\ events' = events \o written
    /\ clock' = clock + 1
    /\ nops' = nops + 1
    /\ UNCHANGED <<store_vars, threads>>

\* POST /api/log from append_log: appended is what it returned or raised.
log_posted(req, appended, record) ==
    IF appended.ok THEN LogHandled(req, "", <<>>, appended.value, <<record>>)
    ELSE LogHandled(req, appended.error, <<>>, logs, <<>>)

\* POST /api/log
AppendLog ==
    \E payload \in Payloads, writable \in BOOLEAN :
        /\ nops < MaxOps
        /\ log_posted(LogRequest("log", payload, 0),
                      append_log(logs, payload, clock, writable),
                      log_record(payload.fields, clock))

\* GET /api/logs?limit=
ReadLogs ==
    \E limit \in 0..MaxLogLimit :
        /\ nops < MaxOps
        /\ LogHandled(LogRequest("logs", JsonObject(<<>>), limit), "",
                      read_logs(logs, limit), logs, <<>>)

LogNext == AppendLog \/ ReadLogs

SpecLog == LogInit /\ [][LogNext]_vars

\* ------------------------------------------------------------------------
\* learningManager.py: update_or_insert_kv applied to the records of the
\* documents
\* ------------------------------------------------------------------------

FieldRequest(fingerprint, key, value) ==
    [op |-> "set", source |-> "manual", fingerprint |-> fingerprint,
     key |-> key, value |-> value]

\* The values set: two statuses, the empty str and a text.
FieldValues == {st_approved, st_pending, "", "d"}

FieldRequests ==
    {FieldRequest(fp, key, value) :
        fp \in {fp_a, fp_b}, key \in {key_status, key_reviewNote},
        value \in FieldValues}

FieldInit ==
    /\ docs \in {[manual |-> m, generated |-> GeneratedDoc] : m \in ManualDocs}
    /\ skills = <<>>
    /\ dirs = {}
    /\ promotions = {}
    /\ request \in FieldRequests
    /\ response = NoResponse
    /\ before = [lines |-> <<>>, entry |-> NoEntry]
    /\ nops = 0
    /\ threads = <<>>
    /\ NoLog

\* update_or_insert_kv is called on lines with the entry found in them, or
\* the lookup raised: found is what find_entry_by_fingerprint returned.
field_set(lines, found) ==
    /\ response' =
          IF ~found.ok THEN [error |-> found.error, data |-> lines]
          ELSE [error |-> "",
                data |-> update_or_insert_kv(lines, found.value,
                                             request.key, request.value)]
    /\ before' = [lines |-> lines,
                  entry |-> IF found.ok THEN found.value ELSE NoEntry]
    /\ nops' = nops + 1
    /\ UNCHANGED <<store_vars, request, threads, log_vars>>

\* The lines of the document are loaded and parsed, and the field is set.
SetField ==
    /\ nops = 0
    /\ field_set(load_lines(fs_now, request.source).value,
                 find_entry_by_fingerprint(
                     parse_entries(load_lines(fs_now, request.source).value),
                     request.fingerprint))

\* The lines that resulted are parsed again and the field is set again.
SetFieldAgain ==
    /\ nops = 1
    /\ response.error = ""
    /\ field_set(response.data,
                 find_entry_by_fingerprint(parse_entries(response.data),
                                           request.fingerprint))

FieldNext == SetField \/ SetFieldAgain

SpecField == FieldInit /\ [][FieldNext]_vars

\* ------------------------------------------------------------------------
\* Properties
\* ------------------------------------------------------------------------

\* The error taxonomy: what each exception is called.
Kind(error) ==
    CASE error \in {ErrMissingFile, ErrFingerprint} -> "NotFound"
      [] error \in {ErrUnsupportedSource, ErrInvalidSlug,
                    ErrUnsupportedTarget} -> "InvalidInput"
      [] error = ErrStatus -> "InvalidState"
      [] error = ErrSkillExists -> "DuplicateResource"
      [] OTHER -> "none"

Selectors == {"manual", "generated"}

CanonicalStatuses == {st_pending, st_approved, st_rejected, st_promoted}

\* The lines and the records of a document text.
LinesOf(content) == splitlines(read_text(content))

EntriesOf(content) == parse_entries(LinesOf(content))

\* The positions of the records with a fingerprint, and the smallest one.
Matches(entries, fingerprint) ==
    {n \in 1..Len(entries) : entries[n].fingerprint = fingerprint}

FirstMatch(entries, fingerprint) ==
    CHOOSE n \in Matches(entries, fingerprint) :
        \A other \in Matches(entries, fingerprint) : n <= other

\* The last request was a review or promote of a record that existed: its
\* selector is valid, its document existed and held the fingerprint.
Addressed ==
    /\ request.op \in {"review", "promote"}
    /\ request.source \in Selectors
    /\ request.source \in DOMAIN before.docs
    /\ Matches(EntriesOf(before.docs[request.source]),
               request.fingerprint) # {}

\* The first record with the request's fingerprint, when the request
\* arrived and now.
RecordIn(content) ==
    EntriesOf(content)[FirstMatch(EntriesOf(content), request.fingerprint)]

RecordBefore == RecordIn(before.docs[request.source])

RecordAfter == RecordIn(docs[request.source])

\* The path of the artifact a promote request names, when its slug and
\* namespace are accepted.
NamesArtifact ==
    /\ request.op = "promote"
    /\ safe_slug(request.slug).ok
    /\ skill_dir(request.target, safe_slug(request.slug).value).ok

ArtifactPath ==
    skill_dir(request.target, safe_slug(request.slug).value).value
        \o file_SKILL_md

\* C1: promote succeeds only if the parsed status of the first record with
\* the fingerprint is exactly approved or promoted when it is called; with
\* any other status (pending, rejected, absent, other text) it fails with
\* InvalidState, creates no artifact file and leaves the document unchanged.
C1_PromoteGate ==
    (request.op = "promote" /\ Addressed) =>
        /\ response.error = "" =>
               RecordBefore.status \in {st_approved, st_promoted}
        /\ RecordBefore.status \notin {st_approved, st_promoted} =>
               /\ Kind(response.error) = "InvalidState"
               /\ skills = before.skills
               /\ docs = before.docs

\* A promote of a pending record was refused.
C1_Witness ==
    /\ request.op = "promote"
    /\ Addressed
    /\ RecordBefore.status = st_pending
    /\ Kind(response.error) = "InvalidState"

\* C2 as stated: once the artifact file of a namespace and normalized slug
\* exists, every later promote naming it, for any fingerprint, fails with
\* DuplicateResource and changes neither the artifact nor the document.
C2_AlwaysDuplicateResource ==
    (NamesArtifact /\ ArtifactPath \in DOMAIN before.skills) =>
        /\ Kind(response.error) = "DuplicateResource"
        /\ skills = before.skills
        /\ docs = before.docs

\* C2 amended: such a promote always fails and changes neither the artifact
\* files nor the documents (so the record's status and reviewNote stay); the
\* error is DuplicateResource when the selector is valid, the document
\* exists, the fingerprint is found and the status is approved or promoted,
\* and otherwise the error of the first of these checks that fails.  No
\* request changes or removes an existing artifact file.
C2_ArtifactWrittenOnce ==
    /\ \A f \in DOMAIN before.skills :
           f \in DOMAIN skills /\ skills[f] = before.skills[f]
    /\ (NamesArtifact /\ ArtifactPath \in DOMAIN before.skills) =>
           /\ response.error # ""
           /\ skills = before.skills
           /\ docs = before.docs
           /\ IF request.source \notin Selectors
              THEN response.error = ErrUnsupportedSource
              ELSE IF request.source \notin DOMAIN before.docs
              THEN response.error = ErrMissingFile
              ELSE IF ~Addressed THEN response.error = ErrFingerprint
              ELSE IF RecordBefore.status \notin {st_approved, st_promoted}
              THEN response.error = ErrStatus
              ELSE Kind(response.error) = "DuplicateResource"

\* A promote naming an existing artifact was refused as a duplicate.
C2_Witness ==
    /\ NamesArtifact
    /\ ArtifactPath \in DOMAIN before.skills
    /\ Kind(response.error) = "DuplicateResource"

\* A promote of this selector and fingerprint returned before this request.
PromotedBefore ==
    \E done \in before.promotions :
        /\ done.source = request.source
        /\ done.fingerprint = request.fingerprint

\* C3 as stated: after a promote of a fingerprint has succeeded, every later
\* promote of that fingerprint fails, for any slug and namespace.
C3_SecondPromoteAlwaysFails ==
    (request.op = "promote" /\ PromotedBefore) => response.error # ""

\* C3 amended: after a promote of a fingerprint has succeeded, every later
\* promote of that fingerprint that names the same artifact file (the same
\* namespace and a slug with the same normal form) fails, whatever the
\* record's status is by then.
C3_SecondPromoteSameArtifactFails ==
    \A done \in before.promotions :
        ( /\ NamesArtifact
          /\ done.source = request.source
          /\ done.fingerprint = request.fingerprint
          /\ done.file = ArtifactPath ) => response.error # ""

\* A promoted record was promoted again to the same artifact and refused
\* although its status passed the check.
C3_Witness ==
    /\ NamesArtifact
    /\ Addressed
    /\ RecordBefore.status = st_promoted
    /\ \E done \in before.promotions :
           /\ done.source = request.source
           /\ done.fingerprint = request.fingerprint
           /\ done.file = ArtifactPath
    /\ response.error = ErrSkillExists

\* The first record with the request's fingerprint is still there.
StillThere ==
    Matches(EntriesOf(docs[request.source]), request.fingerprint) # {}

\* s ends with the text suffix
EndsWith(s, suffix) ==
    Len(s) >= Len(suffix) /\ SubSeq(s, Len(s) - Len(suffix) + 1, Len(s)) = suffix

\* C4, for the four canonical status values: after a successful review, the
\* document loaded and parsed again gives, for the first record with the
\* fingerprint, the given status verbatim and the trimmed reason as
\* reviewNote when that is not empty (the previous reviewNote otherwise),
\* for every record shape: no field line, or a key that appears more than
\* once.
C4_ReviewSetsStatusAndNote ==
    ( /\ request.op = "review"
      /\ request.status \in CanonicalStatuses
      /\ Addressed
      /\ response.error = "" ) =>
        /\ StillThere
        /\ RecordAfter.status = request.status
        /\ RecordAfter.review_note =
               IF strip(request.reason) # "" THEN strip(request.reason)
               ELSE RecordBefore.review_note

\* C5: after a successful promote, the artifact file exists at the path of
\* the namespace and normalized slug, its description is the trimmed given
\* description or, when that is blank, a default that ends with the record's
\* title; and the document loaded and parsed again gives, for the first
\* record with the fingerprint, status promoted and a reviewNote that ends
\* with the artifact path.
C5_PromoteEffects ==
    (request.op = "promote" /\ response.error = "") =>
        /\ NamesArtifact
        /\ ArtifactPath \in DOMAIN skills
        /\ IF strip(request.description) # ""
           THEN skills[ArtifactPath].description = strip(request.description)
           ELSE EndsWith(skills[ArtifactPath].description, RecordBefore.title)
        /\ StillThere
        /\ RecordAfter.status = st_promoted
        /\ EndsWith(RecordAfter.review_note, ArtifactPath)

\* The parsed fields of a record, without its span.
Fields(e) ==
    [timestamp |-> e.timestamp, title |-> e.title,
     fingerprint |-> e.fingerprint, source |-> e.source,
     status |-> e.status, details |-> e.details,
     review_note |-> e.review_note]

\* The fields of a record that review and promote do not set.
KeptFields(e) ==
    [timestamp |-> e.timestamp, title |-> e.title,
     fingerprint |-> e.fingerprint, source |-> e.source,
     details |-> e.details]

RecognizedKeys ==
    {key_fingerprint, key_source, key_status, key_details, key_reviewNote}

\* A line that is neither a header nor a field line with a recognized key.
IsInert(line) ==
    /\ ~ENTRY_HEADER_RE(line).matched
    /\ ~(KV_RE(line).matched /\ KV_RE(line).key \in RecognizedKeys)

InertLines(lines) == SelectSeq(lines, IsInert)

\* The text a document has after save's trimming alone.
Trimmed(content) == save_lines(LinesOf(content))

\* The records and inert lines of the text now are those of the text old,
\* but for the status and reviewNote of record k.
SameBut(old, now, k) ==
    /\ Len(EntriesOf(now)) = Len(EntriesOf(old))
    /\ \A n \in 1..Len(EntriesOf(old)) :
           IF n = k
           THEN KeptFields(EntriesOf(now)[n]) = KeptFields(EntriesOf(old)[n])
           ELSE Fields(EntriesOf(now)[n]) = Fields(EntriesOf(old)[n])
    /\ InertLines(LinesOf(now)) = InertLines(LinesOf(old))

\* The last request was a review or promote that returned.
Mutated ==
    /\ request.op \in {"review", "promote"}
    /\ response.error = ""

FrameKept ==
    \/ SameBut(before.docs[request.source], docs[request.source],
               FirstMatch(EntriesOf(before.docs[request.source]),
                          request.fingerprint))
    \/ SameBut(Trimmed(before.docs[request.source]), docs[request.source],
               FirstMatch(EntriesOf(before.docs[request.source]),
                          request.fingerprint))

\* C6, for a status that is not empty: a successful review or promote
\* changes only the status and reviewNote of the first record with the
\* fingerprint; the number and order of records, every parsed field of
\* every other record, the other fields of the addressed record, and every
\* unrecognized field line and inert line are the same before and after,
\* up to save's trimming of white space at the end of the document; the
\* other document and the artifacts of other paths are untouched.
C6_OnlyStatusAndNoteChange ==
    (Mutated /\ (request.op = "promote" \/ request.status # "")) =>
        /\ FrameKept
        /\ \A d \in DOMAIN before.docs \ {request.source} :
               docs[d] = before.docs[d]

\* The fingerprints looked up: the two of the documents and one of none.
Lookups == {fp_a, fp_b, "c"}

\* The last k lines
Suffix(lines, k) == SubSeq(lines, Len(lines) - k + 1, Len(lines))

\* The lines from the start through the header of record e, and the lines
\* after its span, are in the text now as they are in the text old.
LinesOutsideKept(old, now, e) ==
    /\ Len(now) >= Len(old)
    /\ SubSeq(now, 1, e.header_index + 1) = SubSeq(old, 1, e.header_index + 1)
    /\ Suffix(now, Len(old) - e.end_index) = Suffix(old, Len(old) - e.end_index)

OutsideKept(old, now, e) == LinesOutsideKept(LinesOf(old), LinesOf(now), e)

\* Among the records E, the lookup of each fingerprint gives the one at the
\* smallest position, or raises when there is none.
FindsFirst(E) ==
    \A fp \in Lookups :
        find_entry_by_fingerprint(E, fp) =
            IF Matches(E, fp) = {} THEN Raise(ErrFingerprint)
            ELSE Ok(E[FirstMatch(E, fp)])

\* A review or promote returned, addressed to a fingerprint two records had.
SharedMutated ==
    /\ Mutated
    /\ Cardinality(Matches(EntriesOf(before.docs[request.source]),
                           request.fingerprint)) >= 2

\* C7: find_entry_by_fingerprint returns the record at the smallest position
\* among those with the fingerprint, and fails with NotFound when there is
\* none; a review or promote of a fingerprint no record has fails with
\* NotFound; and when two records share the fingerprint, a review or
\* promote changes lines of the earlier record's span only: every line
\* through its header and every line after its span, the later record
\* among them, stays as it was.
C7_FirstMatchAddressed ==
    /\ \A d \in DOMAIN docs : FindsFirst(EntriesOf(docs[d]))
    /\ ( /\ request.op \in {"review", "promote"}
         /\ request.source \in DOMAIN before.docs
         /\ ~Addressed ) => Kind(response.error) = "NotFound"
    /\ SharedMutated =>
           \/ OutsideKept(before.docs[request.source], docs[request.source],
                          RecordBefore)
           \/ OutsideKept(Trimmed(before.docs[request.source]),
                          docs[request.source], RecordBefore)

\* A review of a fingerprint two records share changed the document.
C7_Witness ==
    /\ SharedMutated
    /\ request.op = "review"
    /\ docs # before.docs
    /\ Len(EntriesOf(docs[request.source])) >= 2

\* The indices of the header lines
HeaderIndices(lines) ==
    {i \in 0..(Len(lines) - 1) : ENTRY_HEADER_RE(At(lines, i)).matched}

\* The records E parsed from lines, in document order, have spans that start
\* at the header lines, run to the next header or the end, and hold no other
\* header.
SpansOver(lines, E, headers) ==
    /\ {E[n].header_index : n \in 1..Len(E)} = headers
    /\ \A n \in 1..Len(E) :
           /\ E[n].header_index \in headers
           /\ E[n].header_index < E[n].end_index
           /\ E[n].end_index = IF n < Len(E) THEN E[n + 1].header_index
                                ELSE Len(lines)
           /\ \A i \in (E[n].header_index + 1)..(E[n].end_index - 1) :
                  i \notin headers
           /\ \A m \in (n + 1)..Len(E) :
                  E[n].end_index <= E[m].header_index
    /\ lines = <<>> => E = <<>>

SpansPartition(lines) ==
    SpansOver(lines, parse_entries(lines), HeaderIndices(lines))

\* C8: for the lines of every document, parse_entries returns the records
\* in document order with spans such that each starts at a header line,
\* start < end, each ends where the next record starts or at the document
\* length for the last one, no two overlap, no header line lies strictly
\* inside one, every header line starts one (so lines before the first
\* header are in none), and an empty document gives no record.
C8_SpansPartition ==
    \A d \in DOMAIN docs :
        SpansPartition(LinesOf(docs[d]))

\* A request changed a document that has lines before its first header,
\* inert lines inside a span, and more than one record.
C8_Witness ==
    /\ Mutated
    /\ docs # before.docs
    /\ Len(EntriesOf(docs[request.source])) >= 2
    /\ EntriesOf(docs[request.source])[1].header_index > 0
    /\ \E i \in (EntriesOf(docs[request.source])[1].header_index + 1)
                ..(EntriesOf(docs[request.source])[1].end_index - 1) :
           IsInert(At(LinesOf(docs[request.source]), i))

\* The status of a record after trimming, empty when it has none.
StatusOf(e) == IF e.status = None THEN "" ELSE strip(e.status)

\* How many of the records E have a trimmed status among names.
CountOf(E, names) == Cardinality({n \in 1..Len(E) : StatusOf(E[n]) \in names})

\* The records of both documents.
AllRecords == EntriesOf(docs["manual"]) \o EntriesOf(docs["generated"])

\* The last request was a dashboard that returned.
DashboardShown ==
    /\ request.op \in {"dashboard", "cli-dashboard"}
    /\ response.error = ""

\* The counts are those of the records E.
CountsMatch(counts, E) ==
    /\ counts.pending = CountOf(E, {st_pending})
    /\ counts.approved = CountOf(E, {st_approved})
    /\ counts.rejected = CountOf(E, {st_rejected})
    /\ counts.promoted = CountOf(E, {st_promoted})
    /\ counts.pending + counts.approved + counts.rejected + counts.promoted
           = CountOf(E, CanonicalStatuses)

\* Each of the tagged records is in one bucket when its trimmed status is
\* canonical and in none otherwise.
BucketsDisjoint(tagged_entries) ==
    \A k \in 1..Len(tagged_entries) :
        Cardinality({name \in CanonicalStatuses :
            \E i \in 1..Len(bucket(tagged_entries, name)) :
                bucket(tagged_entries, name)[i] = tagged_entries[k]})
          = IF StatusOf(tagged_entries[k].entry) \in CanonicalStatuses
            THEN 1 ELSE 0

\* C9: each of the dashboard's four counts is the number of records of both
\* documents whose trimmed status is that name, so the four sum to the
\* number of records whose trimmed status is one of the four names; no
\* record is in two buckets, and a record with an empty, absent or other
\* status is in none.
C9_CountsPartition ==
    DashboardShown =>
        /\ CountsMatch(response.data.counts, AllRecords)
        /\ BucketsDisjoint(all_entries_of(fs_now).value)

\* The records E hold one that is counted only thanks to the trimming and
\* one that is in no bucket.
TrimmedAndOther(E) ==
    /\ \E n \in 1..Len(E) :
           StatusOf(E[n]) \in CanonicalStatuses /\ E[n].status # StatusOf(E[n])
    /\ \E n \in 1..Len(E) : StatusOf(E[n]) \notin CanonicalStatuses

\* A dashboard was shown of documents holding such records.
C9_Witness ==
    /\ DashboardShown
    /\ TrimmedAndOther(AllRecords)
    /\ response.data.counts.approved >= 1

\* The last request was a review that returned and saved the lines as it
\* loaded them: the status it set was the line already there and it set no
\* reviewNote, or the one already there.
Resaved ==
    /\ request.op = "review"
    /\ Addressed
    /\ response.error = ""
    /\ review_lines(LinesOf(before.docs[request.source]), RecordBefore,
                    request.status, request.reason)
           = LinesOf(before.docs[request.source])

\* The parsed fields of the records of a text, in order.
FieldsOfEntries(E) == [n \in 1..Len(E) |-> Fields(E[n])]

FieldsOf(content) == FieldsOfEntries(EntriesOf(content))


\* The white space at the end of the text is made of line ends only.
EndsInLineEnds(content) ==
    rstrip_chars(read_text(content), Whitespace)
        = rstrip_chars(read_text(content), {"\n"})

\* trimmed is the text read, trimmed at the end, with one newline; it
\* is saved as it is; and the fields are kept when the end is line ends.
Normalizes(content, trimmed) ==
    /\ trimmed = rstrip(read_text(content)) \o "\n"
    /\ Trimmed(trimmed) = trimmed
    /\ EndsInLineEnds(content) => FieldsOf(trimmed) = FieldsOf(content)

\* C10 as stated: a document loaded and saved without mutation is the
\* original with the white space at its end replaced by one newline;
\* loading and saving again changes nothing; the parsed records are the
\* same before and after.
C10_RoundTripIdentical ==
    Resaved =>
        /\ docs[request.source] = rstrip(before.docs[request.source]) \o "\n"
        /\ Trimmed(docs[request.source]) = docs[request.source]
        /\ EntriesOf(docs[request.source])
               = EntriesOf(before.docs[request.source])

\* C10 amended: a document loaded and saved without mutation is the
\* original with every line end written as "\n" and the white space at its
\* end replaced by one newline; loading and saving again changes nothing;
\* the parsed records have the same fields, in the same order, before and
\* after when the white space at the end of the original is made of line
\* ends only.
C10_RoundTripNormalizes ==
    /\ \A d \in DOMAIN docs : Normalizes(docs[d], Trimmed(docs[d]))
    /\ Resaved =>
           docs[request.source] = Trimmed(before.docs[request.source])

\* A review saved the lines as it loaded them and the file changed.
C10_Witness ==
    /\ Resaved
    /\ docs[request.source] # before.docs[request.source]

\* ------------------------------------------------------------------------
\* Properties of the concurrent runs
\* ------------------------------------------------------------------------

\* The file system the threads started on, and what a request leaves of it
\* when it is handled with no other request running.
StartFs == [docs |-> before.docs, skills |-> before.skills,
            dirs |-> before.dirs]

Alone(req) ==
    IF req.op = "review"
    THEN cmd_review(StartFs, req.source, req.fingerprint, req.status,
                    req.reason)
    ELSE cmd_promote(StartFs, req.source, req.fingerprint, req.slug,
                     req.description, req.target)

Succeeded(th) == th.pc = "done" /\ th.error = ""

\* Both threads returned without error on the same document, u before t,
\* and t saved what it made of the document as it was at the start.
Overwrote(t, u) ==
    /\ t # u
    /\ Succeeded(threads[t])
    /\ Succeeded(threads[u])
    /\ threads[t].doc = threads[u].doc
    /\ threads[u].finished < threads[t].finished
    /\ threads[t].read = before.docs[threads[t].doc]

\* The parsed status of the first record with a fingerprint.
StatusIn(content, fingerprint) ==
    EntriesOf(content)[FirstMatch(EntriesOf(content), fingerprint)].status

\* C11: two mutating operations on the same document can interleave so that
\* both return success and the document holds only the later writer's
\* change: when the later writer loaded the document before the earlier
\* one saved, the document ends as the later writer alone would leave it.
C11_LaterWriterWins ==
    \A t, u \in Threads :
        Overwrote(t, u) =>
            docs[threads[t].doc] = Alone(threads[t].req).fs.docs[threads[t].doc]

\* Two reviews of different records both returned, and the record of the
\* earlier one does not have the status it set.
C11_Witness ==
    \E t, u \in Threads :
        /\ Overwrote(t, u)
        /\ threads[t].req.op = "review"
        /\ threads[u].req.op = "review"
        /\ threads[t].req.fingerprint # threads[u].req.fingerprint
        /\ StatusIn(docs[threads[u].doc], threads[u].req.fingerprint)
               # threads[u].req.status

\* Two promotions that name the same artifact file.
SameArtifact(t, u) ==
    /\ t # u
    /\ threads[t].req.op = "promote"
    /\ threads[u].req.op = "promote"
    /\ threads[t].file # ""
    /\ threads[t].file = threads[u].file

\* C12: the existence check and the write of promote are not atomic: two
\* concurrent promotions into the same namespace with the same normalized
\* slug can both pass the check, both write and both return success; the
\* file then holds what the later of the two wrote.
C12_BothPromotionsWrite ==
    \A t, u \in Threads :
        (/\ SameArtifact(t, u)
         /\ Succeeded(threads[t])
         /\ Succeeded(threads[u])
         /\ threads[u].wrote < threads[t].wrote)
        => /\ threads[u].wrote > 0
           /\ threads[t].file \in DOMAIN skills
           /\ skills[threads[t].file] = skill_body(threads[t])

\* Both promotions returned success and the earlier writer's text is gone.
C12_Witness ==
    \E t, u \in Threads :
        /\ SameArtifact(t, u)
        /\ Succeeded(threads[t])
        /\ Succeeded(threads[u])
        /\ threads[u].wrote < threads[t].wrote
        /\ skill_body(threads[u]) # skill_body(threads[t])
        /\ skills[threads[t].file] # skill_body(threads[u])

\* ------------------------------------------------------------------------
\* Properties of safe_slug
\* ------------------------------------------------------------------------

\* s with each maximal run of characters outside keep replaced by one
\* hyphen; replaced tells that the character before belongs to such a run.
RECURSIVE Collapsed(_, _, _)
Collapsed(s, keep, replaced) ==
    IF s = "" THEN ""
    ELSE IF Head(s) \in keep
         THEN Head(s) \o Collapsed(Tail(s), keep, FALSE)
    ELSE (IF replaced THEN "" ELSE "-") \o Collapsed(Tail(s), keep, TRUE)

\* s without the hyphens at its ends.
HyphensTrimmed(s) ==
    IF \A i \in 1..Len(s) : Char(s, i) = "-" THEN ""
    ELSE SubSeq(s,
            CHOOSE i \in 1..Len(s) :
                /\ Char(s, i) # "-"
                /\ \A k \in 1..(i - 1) : Char(s, k) = "-",
            CHOOSE j \in 1..Len(s) :
                /\ Char(s, j) # "-"
                /\ \A k \in (j + 1)..Len(s) : Char(s, k) = "-")

LowerSlugChars == LowerChars \cup DigitChars \cup {"-"}

\* The normal form C13 states: lower case first, then the runs outside
\* [a-z0-9-], then the hyphens at the ends.
LoweredFirst(s) == HyphensTrimmed(Collapsed(lower(s), LowerSlugChars, FALSE))

\* The normal form with the lower case taken last: the runs outside
\* [a-zA-Z0-9-], the hyphens at the ends, then lower case.
LoweredLast(s) == lower(HyphensTrimmed(Collapsed(s, SlugChars, FALSE)))

\* The shape of a returned slug.
WellFormedSlug(s) ==
    /\ s # ""
    /\ \A i \in 1..Len(s) : Char(s, i) \in LowerSlugChars
    /\ Char(s, 1) # "-"
    /\ Char(s, Len(s)) # "-"

\* What C13 states of the slug just normalized, form being the normal form.
SlugContract(form) ==
    /\ (response.error # "") <=> (form = "")
    /\ response.error # "" => Kind(response.error) = "InvalidInput"
    /\ response.error = "" => WellFormedSlug(response.data)
                               /\ response.data = form

Idempotent ==
    (request.op = "slug-again" /\ nops = 2) =>
        response.error = "" /\ response.data = request.slug

\* C13 as stated: safe_slug fails with InvalidInput exactly when the normal
\* form is empty, and otherwise returns it: a non-empty string over
\* [a-z0-9-] with no hyphen at either end, equal to the input in lower case
\* with each maximal run outside [a-z0-9-] replaced by one hyphen and the
\* hyphens at the ends removed; normalizing a normalized slug returns it.
C13_LoweredThenCollapsed ==
    /\ (request.op = "slug" /\ nops = 1) =>
           SlugContract(LoweredFirst(request.slug))
    /\ Idempotent

\* C13 amended: the same, the normal form being the input with each maximal
\* run outside [a-zA-Z0-9-] replaced by one hyphen, the hyphens at the ends
\* removed, and the result put in lower case.
C13_CollapsedThenLowered ==
    /\ (request.op = "slug" /\ nops = 1) =>
           SlugContract(LoweredLast(request.slug))
    /\ Idempotent

\* A slug with upper case and a run that holds the letter outside ASCII
\* was normalized.
C13_Witness ==
    /\ request.op = "slug"
    /\ nops = 1
    /\ request.slug = "B_" \o KelvinSign \o "a"
    /\ response.data = "b-a"

\* ------------------------------------------------------------------------
\* Properties of the event log
\* ------------------------------------------------------------------------

\* The newest n of the events written, newest first.
NewestFirst(n) ==
    [k \in 1..(IF n < Len(events) THEN n ELSE Len(events)) |->
        events[Len(events) + 1 - k]]

\* The text of the log file, "" when there is none.
LogText(files) ==
    IF logs_file_path \in DOMAIN files THEN files[logs_file_path] ELSE ""

\* C14: the event log is append-only and read most-recent-first: a read
\* with a non-negative limit returns at most limit events, the most
\* recently appended well-formed ones, newest first, skipping malformed and
\* blank lines; an append changes or removes no earlier event.
C14_ReadNewestAtMostLimit ==
    /\ request.op = "logs" =>
           /\ Len(response.data) <= request.limit
           /\ response.data = NewestFirst(request.limit)
    /\ request.op = "log" =>
           /\ startswith(LogText(logs), LogText(before.logs))
           /\ SubSeq(events, 1, Len(before.events)) = before.events

\* C15: appending a log event never fails the caller: for any payload, and
\* whether or not the write to the log succeeds, the request reports
\* success; the timestamp of the stored event is the server's time, never
\* a value of the caller's.
C15_AppendNeverFails ==
    request.op = "log" =>
        /\ response.error = ""
        /\ Len(events) > Len(before.events) =>
               /\ events[Len(events)][k_timestamp] = isoformat(clock - 1)
               /\ read_logs(logs, 1) = <<events[Len(events)]>>

\* ------------------------------------------------------------------------
\* Properties of update_or_insert_kv and of the parsed attributes
\* ------------------------------------------------------------------------

\* The indices (0-based) strictly inside the span of entry whose line in
\* lines starts with prefix.
PrefixedInSpan(lines, entry, prefix) ==
    {i \in (entry.header_index + 1)..(entry.end_index - 1) :
        startswith(At(lines, i), prefix)}

\* new is old with the one line at some index of candidates replaced by
\* line, every other line as it was.
ReplacedOne(old, new, candidates, line) ==
    /\ Len(new) = Len(old)
    /\ \E i \in candidates :
           /\ At(new, i) = line
           /\ \A k \in 0..(Len(old) - 1) : k # i => At(new, k) = At(old, k)

\* new is old with line inserted at index at: the lines before it are as
\* they were, those at or after it are shifted by one.
InsertedAt(old, new, at, line) ==
    /\ Len(new) = Len(old) + 1
    /\ At(new, at) = line
    /\ \A k \in 0..(at - 1) : At(new, k) = At(old, k)
    /\ \A k \in at..(Len(old) - 1) : At(new, k + 1) = At(old, k)

\* The attribute of an entry that a key names.
AttrOf(entry, key) ==
    CASE key = key_fingerprint -> entry.fingerprint
      [] key = key_source -> entry.source
      [] key = key_status -> entry.status
      [] key = key_details -> entry.details
      [] key = key_reviewNote -> entry.review_note

\* What C16 states of one call: old and new are the lines before and after,
\* entry the record, hits the lines of its span with the prefix of the key.
SetAsStated(old, new, entry, hits, line) ==
    /\ hits # {} => ReplacedOne(old, new, hits, line)
    /\ hits = {} => InsertedAt(old, new, entry.end_index, line)
    /\ (/\ AttrOf(entry, request.key) # None
        /\ AttrOf(entry, request.key) = request.value)
       => ReplacedOne(old, new, hits, line)

\* C16: update_or_insert_kv, called with an entry parsed from the lines,
\* replaces exactly one line strictly inside the span that starts with the
\* prefix of the key, the number of lines unchanged, when there is such a
\* line, and otherwise inserts one line at the end index of the span, the
\* lines from there on shifted by one; every other line keeps its content
\* and order; setting a field to its parsed value replaces in place.
C16_ReplaceOrInsert ==
    (request.op = "set" /\ nops > 0 /\ response.error = "") =>
        SetAsStated(before.lines, response.data, before.entry,
                    PrefixedInSpan(before.lines, before.entry,
                                   kv_target(request.key)),
                    kv_target(request.key) \o request.value)

\* A field was set to the value parsed for it, in a record that has the
\* key twice, and a line was replaced.
C16_Witness ==
    /\ request.op = "set"
    /\ nops > 0
    /\ response.error = ""
    /\ AttrOf(before.entry, request.key) = request.value
    /\ Cardinality(PrefixedInSpan(before.lines, before.entry,
                                  kv_target(request.key))) = 2
    /\ ReplacedOne(before.lines, response.data,
                   PrefixedInSpan(before.lines, before.entry,
                                  kv_target(request.key)),
                   kv_target(request.key) \o request.value)

\* The value of the last line of the span of entry that is a field line
\* with the key, None when there is no such line: hits are the indices of
\* those lines.
LastValue(lines, hits, prefix) ==
    IF hits = {} THEN None
    ELSE SubSeq(At(lines, CHOOSE i \in hits : \A k \in hits : k <= i),
                Len(prefix) + 1,
                Len(At(lines, CHOOSE i \in hits : \A k \in hits : k <= i)))

LastWins(lines, entry) ==
    \A key \in RecognizedKeys :
        AttrOf(entry, key)
            = LastValue(lines, PrefixedInSpan(lines, entry, kv_target(key)),
                        kv_target(key))

AllLastWin(lines, entries) ==
    \A n \in 1..Len(entries) : LastWins(lines, entries[n])

\* C17: for each record and each of the five recognized keys the parsed
\* attribute is the value of the last field line with that key inside the
\* span of the record, and is absent when there is none; other lines do not
\* affect the attributes.
C17_LastWriteWins ==
    \A d \in DOMAIN docs :
        AllLastWin(LinesOf(docs[d]), parse_entries(LinesOf(docs[d])))

\* A review left a record with two status lines of different values.
TwoValues(lines, entry, prefix) ==
    \E i, k \in PrefixedInSpan(lines, entry, prefix) :
        At(lines, i) # At(lines, k)

C17_Witness ==
    /\ request.op = "review"
    /\ response.error = ""
    /\ "manual" \in DOMAIN docs
    /\ \E n \in 1..Len(EntriesOf(docs.manual)) :
           TwoValues(LinesOf(docs.manual), EntriesOf(docs.manual)[n],
                     kv_target(key_status))

\* ------------------------------------------------------------------------
\* Properties of the order of the checks of cmd_promote
\* ------------------------------------------------------------------------

Namespaces == {"skills", "skills-cursor"}

\* The error of the first check that fails for the promote request, ""
\* when none does: the selector, the document, the fingerprint, the status,
\* the slug, the namespace, the artifact.
FirstFailure ==
    IF request.source \notin Selectors THEN ErrUnsupportedSource
    ELSE IF request.source \notin DOMAIN before.docs THEN ErrMissingFile
    ELSE IF ~Addressed THEN ErrFingerprint
    ELSE IF RecordBefore.status \notin {st_approved, st_promoted}
         THEN ErrStatus
    ELSE IF LoweredLast(request.slug) = "" THEN ErrInvalidSlug
    ELSE IF request.target \notin Namespaces THEN ErrUnsupportedTarget
    ELSE IF ArtifactPath \in DOMAIN before.skills THEN ErrSkillExists
    ELSE ""

\* C18: promote evaluates its checks in the order selector, document,
\* fingerprint, status, slug, namespace, artifact; the first check that
\* fails gives the error; when a check fails no directory is created, no
\* artifact file is written and the document is not modified.
C18_FirstFailingCheck ==
    request.op = "promote" =>
        /\ response.error = FirstFailure
        /\ response.error # "" =>
               /\ docs = before.docs
               /\ skills = before.skills
               /\ dirs = before.dirs

\* A promotion that fails two checks reported the earlier one: the status
\* before the slug, or the slug before the namespace, or the existing
\* artifact last.
C18_Witness ==
    /\ request.op = "promote"
    /\ \/ /\ response.error = ErrStatus
          /\ LoweredLast(request.slug) = ""
       \/ /\ response.error = ErrInvalidSlug
          /\ request.target \notin Namespaces
    /\ dirs # {}

\* ------------------------------------------------------------------------
\* Properties relating the dashboard, promote and review
\* ------------------------------------------------------------------------

\* The dashboard counts the entry as approved or promoted.
CountedPromotable(entry) ==
    bucket(tagged("manual", <<entry>>), st_approved)
        \o bucket(tagged("manual", <<entry>>), st_promoted) # <<>>

GateAgrees(entries) ==
    \A n \in 1..Len(entries) :
        CountedPromotable(entries[n]) <=> ~status_not_promotable(entries[n])

\* C19: the dashboard's classification and the status gate of promote
\* agree: a record is counted as approved or promoted exactly when it
\* passes the gate, for any status review wrote, white space at its ends
\* included.
C19_GateAgreesWithDashboard ==
    \A d \in DOMAIN docs : GateAgrees(EntriesOf(docs[d]))

\* The file system after the last request is handled once more.
ReviewedAgain ==
    cmd_review(fs_now, request.source, request.fingerprint, request.status,
               request.reason)

\* C20: review is idempotent: for any document, fingerprint, status and
\* reason, a second review with the same arguments leaves the document as
\* the first one left it.
C20_ReviewIdempotent ==
    (request.op = "review" /\ response.error = "") =>
        /\ ReviewedAgain.error = ""
        /\ ReviewedAgain.fs.docs = docs

\* ------------------------------------------------------------------------
\* Properties of a promotion that runs together with a review
\* ------------------------------------------------------------------------

\* The thread is a promotion that has loaded the document again and marked
\* the record in the lines it holds.
MarkedPromoted(th) ==
    /\ th.req.op = "promote"
    /\ th.wrote > 0
    /\ th.pc = "save" \/ Succeeded(th)

\* C21: promote writes the status promoted only onto a record whose status
\* in the document it loaded last, the one it changes and saves, is
\* approved or promoted: a review that sets the record to rejected or
\* pending between the status check and that load is not overwritten.
C21_PromotedOnlyFromApproved ==
    \A t \in Threads :
        MarkedPromoted(threads[t]) =>
            StatusIn(threads[t].read, threads[t].req.fingerprint)
                \in {st_approved, st_promoted}

====
